---- MODULE Spec2Model ----
(***************************************************************************)
(* ca-migrate: session clients (login / logout / run_xog / scoped          *)
(* release), the XOG response classifier (try_error) and the paginated,    *)
(* streamed migration pipeline (Xogger.migrate with its producer task      *)
(* _aiter_paginate_stream, the anyio memory object stream between them and *)
(* the task group that supervises the destination writes).                 *)
(***************************************************************************)
EXTENDS Integers, Sequences, FiniteSets, TLC

(***************************************************************************)
(* Bounds of the model.                                                    *)
(***************************************************************************)
\* the source serves at most this many pages to one migrate
MaxPages == 3
\* buffer values a caller passes to migrate explicitly: 1..MaxBuffer
MaxBuffer == 2
\* a ContentPack holds queries of 1..MaxTypes query types
MaxTypes == 2

\* migrate's default for buffer (migrator.py:202)
DefaultBuffer == 3

(***************************************************************************)
(* Optional values: None is <<>>, a present value v is <<v>>.              *)
(***************************************************************************)
None == <<>>
Some(v) == <<v>>

Clients == {"src", "dest"}

(***************************************************************************)
(* XML documents, reduced to what login and try_error look at.             *)
(*   xogOutput   an XOGOutput element exists below the root                *)
(*   status      its Status child: "absent", "nostate" (no state           *)
(*               attribute), or the state attribute's value                *)
(*   errorInfo   XOGOutput has an ErrorInformation child                   *)
(*   severity, description   text of its Severity / Description children   *)
(*   skip        value attribute of a Skip element below XOGOutput, as the *)
(*               string of decimal digits the wire carries                 *)
(*   databus     a NikuDataBus element exists under soapenv:Body           *)
(*   sessionId   text of an xog:SessionID element, sidInBus: it lies       *)
(*               inside the NikuDataBus                                    *)
(*   body        the records the document carries (a page id)              *)
(***************************************************************************)
StatusValues == {"absent", "nostate", "OK", "FAILURE"}
SeverityValues == {None, Some("WARN")}
DescriptionValues == {None, Some("dup")}
SkipValues == {None, Some(<<1>>), Some(<<5, 0>>)}
SessionValues == {None, Some("tok2")}

WellFormed(d) ==
    /\ ~d.xogOutput => (d.status = "absent" /\ ~d.errorInfo /\ d.skip = None)
    /\ ~d.errorInfo => (d.severity = None /\ d.description = None)
    /\ d.sidInBus => (d.databus /\ d.sessionId # None)

Docs ==
    {d \in [xogOutput : BOOLEAN, status : StatusValues, errorInfo : BOOLEAN,
            severity : SeverityValues, description : DescriptionValues,
            skip : SkipValues, databus : BOOLEAN, sessionId : SessionValues,
            sidInBus : BOOLEAN, body : {0}] : WellFormed(d)}

\* int(text) of a string of decimal digits
RECURSIVE int(_)
int(digits) ==
    IF digits = <<>> THEN 0
    ELSE 10 * int(SubSeq(digits, 1, Len(digits) - 1)) + digits[Len(digits)]

\* str(n) for n >= 0: xml.serialize of an int
RECURSIVE serialize(_)
serialize(n) ==
    IF n < 10 THEN <<n>> ELSE Append(serialize(n \div 10), n % 10)

(***************************************************************************)
(* Exceptions and results.                                                 *)
(***************************************************************************)
XogFailureException(doc) ==
    [type |-> "XogFailureException", severity |-> None, description |-> None,
     doc |-> Some(doc)]
XogException(severity, description, doc) ==
    [type |-> "XogException", severity |-> Some(severity),
     description |-> Some(description), doc |-> Some(doc)]
AuthException(doc) ==
    [type |-> "AuthException", severity |-> None, description |-> None,
     doc |-> Some(doc)]
\* exceptions of the libraries: httpx (ConnectError, HTTPStatusError,
\* RuntimeError on a closed client), AssertionError, a transform's own error
OtherException(type) ==
    [type |-> type, severity |-> None, description |-> None, doc |-> None]

Raise(e) == [kind |-> "raise", exc |-> e]
Return(v) == [kind |-> "return", value |-> v]
NoResult == [kind |-> "none"]

\* what findtext(tag, default) gives for an optional child's text
findtext(child, default) == IF child = None THEN default ELSE child[1]

\* get_databus: the NikuDataBus under the body, else the whole document
get_databus(root) ==
    [part |-> IF root.databus THEN "NikuDataBus" ELSE "root", root |-> root]

\* try_error without the `if error_info is None` branch
try_error_no_detail_check(el) ==
    LET skip_value == IF el.xogOutput THEN el.skip ELSE None
    IN  IF el.xogOutput /\ el.status = "FAILURE"
        THEN Raise(XogException(findtext(el.severity, "FATAL"),
                                findtext(el.description, "Failed running XOG"),
                                el))
        ELSE Return([payload |-> get_databus(el),
                     skip |-> IF skip_value = None THEN None
                              ELSE Some(int(skip_value[1]))])

\* try_error: a (payload, skip) pair or a raised protocol error
try_error(el) ==
    LET status_state == IF el.status = "nostate" THEN "OK" ELSE el.status
        skip_value == IF el.xogOutput THEN el.skip ELSE None
    IN  IF el.xogOutput /\ el.status # "absent" /\ status_state = "FAILURE"
        THEN IF ~el.errorInfo
             THEN Raise(XogFailureException(el))
             ELSE Raise(XogException(findtext(el.severity, "FATAL"),
                                     findtext(el.description, "Failed running XOG"),
                                     el))
        ELSE Return([payload |-> get_databus(el),
                     skip |-> IF skip_value = None THEN None
                              ELSE Some(int(skip_value[1]))])

(***************************************************************************)
(* State.                                                                  *)
(***************************************************************************)
VARIABLES
    \* Client.auth of the two clients: None or Some(session id)
    auth,
    \* the httpx AsyncClient of each client: "new", "open" or "closed"
    transport,
    \* the last client operation (or try_error call): which, on which
    \* client, the envelope it posted, what the endpoint answered and how
    \* the call ended
    ret,
    \* the document handed to try_error
    el,
    \* migrate's arguments: content kind, transform_fn, buffer
    req,
    \* header.args["skip"] of the two DataBus objects: the caller's bundle
    \* and the one ContentPack.to_databus builds
    dbArgs,
    \* where migrate's own (host) task is
    mpc,
    \* the DataBus object, transform_fn and buffer the running pipeline uses
    cur,
    \* the producer task _aiter_paginate_stream: where it is, its page_num,
    \* the (page_num, resp) it is sending and the skip that came with it
    ppc, pageNum, pItem, pSkip,
    \* the source requests made so far: the skip argument each one carried
    srcReqs,
    \* the memory object stream: buffered items, whether snd is closed, the
    \* item handed directly to the waiting receiver
    buffer, sndClosed, handed,
    \* the destination task of each page: its state and the payload it posts
    dest,
    \* migrate's responses list
    responses,
    \* the task group: cancel scope cancelled, exceptions its tasks raised
    cancelled, errors,
    \* how migrate ended
    result

clientVars == <<auth, transport, ret>>
pipeVars == <<req, dbArgs, mpc, cur, ppc, pageNum, pItem, pSkip, srcReqs,
              buffer, sndClosed, handed, dest, responses, cancelled, errors,
              result>>
vars == <<auth, transport, ret, el, req, dbArgs, mpc, cur, ppc, pageNum,
          pItem, pSkip, srcReqs, buffer, sndClosed, handed, dest, responses,
          cancelled, errors, result>>

Pages == 1..MaxPages
NoItem == <<>>
NoResp == [status |-> "none"]
NoCall ==
    [op |-> "none", client |-> "none", resp |-> NoResp, req |-> None,
     result |-> NoResult]
NoReq == [kind |-> "none", types |-> 0, transform |-> "none", buffer |-> 0]
NoCur == [databus |-> "none", query |-> 0, transform |-> "none", buffer |-> 0]

\* no migrate is running and none has run
PipeIdle ==
    /\ req = NoReq
    /\ dbArgs = [o \in {"bundle", "packbus"} |-> None]
    /\ mpc = "idle"
    /\ cur = NoCur
    /\ ppc = "none" /\ pageNum = 0 /\ pItem = NoItem /\ pSkip = None
    /\ srcReqs = <<>>
    /\ buffer = <<>> /\ sndClosed = FALSE /\ handed = NoItem
    /\ dest = [p \in Pages |-> [st |-> "none", data |-> NoItem]]
    /\ responses = <<>>
    /\ cancelled = FALSE /\ errors = <<>>
    /\ result = NoResult

(***************************************************************************)
(* Classifier alone: try_error applied to every document of Docs.          *)
(***************************************************************************)
InitClassify ==
    /\ el \in Docs
    /\ ret = NoCall
    /\ auth = [c \in Clients |-> None]
    /\ transport = [c \in Clients |-> "new"]
    /\ PipeIdle

Classify ==
    /\ ret.op = "none"
    /\ ret' = [op |-> "try_error", client |-> "none", resp |-> NoResp,
               req |-> None, result |-> try_error(el)]
    /\ UNCHANGED <<auth, transport, el>>
    /\ UNCHANGED pipeVars

NextClassify == Classify

SpecClassify == InitClassify /\ [][NextClassify]_vars

(***************************************************************************)
(* Session client.                                                         *)
(***************************************************************************)
\* what the endpoint answers to one POST: the HTTP status class (or a
\* connection fault) and the document in the body
HttpStatuses == {"2xx", "4xx", "5xx", "connect"}
ClientDocs ==
    {d \in Docs : /\ d.skip = None /\ d.description = None
                  /\ d.status # "nostate"
                  /\ d.xogOutput => (d.status # "absent" /\ ~d.databus)
                  /\ d.errorInfo => d.status = "FAILURE"
                  /\ d.status = "FAILURE" => d.sessionId = None}
EmptyDoc == CHOOSE d \in Docs : ~d.xogOutput /\ ~d.databus /\ d.sessionId = None
\* bodies an HTTP error answer may carry: nothing, or a FAILURE document
ErrorBodies ==
    {EmptyDoc} \cup {d \in ClientDocs : d.xogOutput /\ d.status = "FAILURE"}
ClientResponses ==
    [status : {"2xx"}, doc : ClientDocs]
        \cup [status : {"4xx", "5xx"}, doc : ErrorBodies]
        \cup [status : {"connect"}, doc : {EmptyDoc}]

\* run_xog with try_error before raise_for_status
run_xog_classify_first(c, resp) ==
    IF transport[c] = "closed" THEN Raise(OtherException("RuntimeError"))
    ELSE IF resp.status = "connect" THEN Raise(OtherException("ConnectError"))
    ELSE LET r == try_error(resp.doc)
         IN  IF r.kind = "raise" THEN r
             ELSE IF resp.status \in {"4xx", "5xx"}
                  THEN Raise(OtherException("HTTPStatusError"))
             ELSE r


make_envelope(c, data) == [session |-> auth[c], body |-> data]

\* Client.run_xog once the endpoint has answered resp
run_xog(c, resp) ==
    IF transport[c] = "closed" THEN Raise(OtherException("RuntimeError"))
    ELSE IF resp.status = "connect" THEN Raise(OtherException("ConnectError"))
    ELSE IF resp.status \in {"4xx", "5xx"}
         THEN Raise(OtherException("HTTPStatusError"))
    ELSE try_error(resp.doc)

\* the envelope a call posts (none on a closed transport) and the transport
\* afterwards: a new AsyncClient opens on its first request
posted(c, data) ==
    [envelope |-> IF transport[c] = "closed" THEN None
                  ELSE Some(make_envelope(c, data)),
     transport |-> IF transport[c] = "new" THEN "open" ELSE transport[c]]
notPosted(c) == [envelope |-> None, transport |-> transport[c]]

\* resp.findtext(".//xog:SessionID") on the payload run_xog returned
findSessionID(payload) ==
    IF payload.part = "NikuDataBus"
    THEN IF payload.root.sidInBus THEN payload.root.sessionId ELSE None
    ELSE payload.root.sessionId

\* login without the `if session_id is None` check
login_no_session_check(c, resp) ==
    LET r == run_xog(c, resp)
    IN  IF r.kind = "raise"
        THEN IF r.exc.type = "XogException"
             THEN [auth |-> auth[c], result |-> Raise(AuthException(r.exc.doc[1]))]
             ELSE [auth |-> auth[c], result |-> r]
        ELSE LET session_id == findSessionID(r.value.payload)
             IN  [auth |-> IF session_id = None THEN Some("") ELSE session_id,
                  result |-> Return("self")]

\* login without the `except XogException` clause
login_no_except(c, resp) ==
    LET r == run_xog(c, resp)
    IN  IF r.kind = "raise"
        THEN [auth |-> auth[c], result |-> r]
        ELSE LET session_id == findSessionID(r.value.payload)
             IN  IF session_id = None
                 THEN [auth |-> auth[c],
                       result |-> Raise(AuthException(r.value.payload))]
                 ELSE [auth |-> session_id, result |-> Return("self")]

\* Client.login: the new auth of c and how the call ends
login(c, resp) ==
    LET r == run_xog(c, resp)
    IN  IF r.kind = "raise"
        THEN IF r.exc.type = "XogException"
             THEN [auth |-> auth[c], result |-> Raise(AuthException(r.exc.doc[1]))]
             ELSE [auth |-> auth[c], result |-> r]
        ELSE LET session_id == findSessionID(r.value.payload)
             IN  IF session_id = None
                 THEN [auth |-> auth[c],
                       result |-> Raise(AuthException(r.value.payload))]
                 ELSE [auth |-> session_id, result |-> Return("self")]

\* Client.logout: what it posted, and how the call ends
logout(c, resp) ==
    IF auth[c] = None
    THEN [post |-> notPosted(c), result |-> Return(None)]
    ELSE LET r == run_xog(c, resp)
         IN  [post |-> posted(c, "Logout"),
              result |-> IF r.kind = "raise" THEN r ELSE Return(None)]

\* Client.__aexit__: logout, then the transport's own __aexit__
aexit(c, resp) ==
    LET lo == logout(c, resp)
    IN  IF lo.result.kind = "raise"
        THEN lo
        ELSE [post |-> [lo.post EXCEPT !.transport = "closed"],
              result |-> Return(None)]

Called(op, c, resp, post, res) ==
    /\ transport' = [transport EXCEPT ![c] = post.transport]
    /\ ret' = [op |-> op, client |-> c, resp |-> resp, req |-> post.envelope,
               result |-> res]
    /\ UNCHANGED el
    /\ UNCHANGED pipeVars

\* The owner of a client calls its operations while no migrate is running
\* with it (mpc = "idle").
Login(c) ==
    \E resp \in ClientResponses :
        /\ mpc = "idle"
        /\ LET r == login(c, resp)
           IN  /\ auth' = [auth EXCEPT ![c] = r.auth]
               /\ Called("login", c, resp, posted(c, "Login"), r.result)

\* a logout that forgets the token
Logout_clears_auth(c) ==
    \E resp \in ClientResponses :
        /\ mpc = "idle"
        /\ LET r == logout(c, resp)
           IN  /\ Called("logout", c, resp, r.post, r.result)
               /\ auth' = [auth EXCEPT ![c] = None]

Logout(c) ==
    \E resp \in ClientResponses :
        /\ mpc = "idle"
        /\ LET r == logout(c, resp)
           IN  /\ Called("logout", c, resp, r.post, r.result)
               /\ UNCHANGED auth

RunXog(c) ==
    \E resp \in ClientResponses :
        /\ mpc = "idle"
        /\ Called("run_xog", c, resp, posted(c, "NikuDataBus"), run_xog(c, resp))
        /\ UNCHANGED auth

\* Client.__aenter__: an AsyncClient can be entered once, before any use
AEnter(c) ==
    /\ mpc = "idle"
    /\ IF transport[c] = "new"
       THEN Called("__aenter__", c, NoResp,
                   [envelope |-> None, transport |-> "open"], Return("self"))
       ELSE Called("__aenter__", c, NoResp, notPosted(c),
                   Raise(OtherException("RuntimeError")))
    /\ UNCHANGED auth

AExit(c) ==
    \E resp \in ClientResponses :
        /\ mpc = "idle"
        /\ LET r == aexit(c, resp)
           IN  /\ Called("__aexit__", c, resp, r.post, r.result)
               /\ UNCHANGED auth

\* Client(...): session_id given or not
InitClient ==
    /\ auth \in [Clients -> {None, Some("tok1")}]
    /\ transport = [c \in Clients |-> "new"]
    /\ ret = NoCall
    /\ el = EmptyDoc
    /\ PipeIdle

NextClient ==
    \E c \in Clients :
        \/ Login(c)
        \/ Logout(c)
        \/ RunXog(c)
        \/ AEnter(c)
        \/ AExit(c)

SpecClient == InitClient /\ [][NextClient]_vars

(***************************************************************************)
(* Migration pipeline: what the two endpoints answer.                      *)
(***************************************************************************)
\* a read response carrying page i, with or without a Skip element
PageDoc(i, skip) ==
    [xogOutput |-> TRUE, status |-> "OK", errorInfo |-> FALSE,
     severity |-> None, description |-> None, skip |-> skip,
     databus |-> TRUE, sessionId |-> None, sidInBus |-> FALSE, body |-> i]
\* a write acknowledgement
AckDoc ==
    [xogOutput |-> TRUE, status |-> "OK", errorInfo |-> FALSE,
     severity |-> None, description |-> None, skip |-> None,
     databus |-> FALSE, sessionId |-> None, sidInBus |-> FALSE, body |-> 0]
\* the protocol's error envelope, with and without ErrorInformation
FailDoc(detail) ==
    [xogOutput |-> TRUE, status |-> "FAILURE", errorInfo |-> detail,
     severity |-> IF detail THEN Some("WARN") ELSE None,
     description |-> IF detail THEN Some("dup") ELSE None, skip |-> None,
     databus |-> FALSE, sessionId |-> None, sidInBus |-> FALSE, body |-> 0]
FailResponses ==
    {[status |-> "2xx", doc |-> FailDoc(TRUE)],
     [status |-> "2xx", doc |-> FailDoc(FALSE)],
     [status |-> "5xx", doc |-> EmptyDoc]}

\* the cursor the source gives with page i when more pages follow
Cursor(i) == 50 * i
\* answers of the source to its i-th read of a migrate: the last page it is
\* willing to serve carries no Skip
SrcResponses(i) ==
    {[status |-> "2xx", doc |-> PageDoc(i, None)]}
        \cup (IF i < MaxPages
              THEN {[status |-> "2xx", doc |-> PageDoc(i, Some(serialize(Cursor(i))))]}
              ELSE {})
        \cup FailResponses
DestResponses == {[status |-> "2xx", doc |-> AckDoc]} \cup FailResponses

\* the caller's transform_fn
transform_fn(payload) == [payload EXCEPT !.part = "transformed"]

\* as_xml without the loop over header.args
as_xml_no_args(db, args) ==
    [objectType |-> IF db.databus = "packbus" THEN "contentPack" ELSE "project",
     query |-> db.query,
     skip |-> None]

\* DataBus.as_xml: the request element, reduced to the objectType of its
\* Header, the number of its query elements and its skip argument as
\* xml.serialize renders it
as_xml(db, args) ==
    [objectType |-> IF db.databus = "packbus" THEN "contentPack" ELSE "project",
     query |-> db.query,
     skip |-> IF args = None THEN None ELSE Some(serialize(args[1]))]

(***************************************************************************)
(* Xogger.migrate: the call, up to the first receive of the consumer loop. *)
(***************************************************************************)
Kinds == {"bundle", "pack"}
Transforms == {"none", "f"}
Buffers == 1..MaxBuffer \cup {DefaultBuffer}
\* query types of the content: a DataBus of the callers holds one query, a
\* ContentPack queries of 1..MaxTypes types
Types(kind) == IF kind = "pack" THEN 1..MaxTypes ELSE {1}

\* only the first of the two assertions
authenticated_src_only == auth["src"] # None

\* the two assertions at the top of migrate
authenticated == auth["src"] # None /\ auth["dest"] # None

\* a pack reduced to the queries of its first type
pipeline_first_type(kind, types, transform, buf) ==
    IF kind = "pack"
    THEN [databus |-> "packbus", query |-> 1, transform |-> "none",
          buffer |-> DefaultBuffer]
    ELSE [databus |-> "bundle", query |-> types, transform |-> transform,
          buffer |-> buf]

\* the DataBus, transform_fn and buffer the pipeline runs with: a pack is
\* turned into one DataBus by ContentPack.to_databus (one query element per
\* query type) and migrated by `return await self.migrate(databus)`
pipeline(kind, types, transform, buf) ==
    IF kind = "pack"
    THEN [databus |-> "packbus", query |-> types, transform |-> "none",
          buffer |-> DefaultBuffer]
    ELSE [databus |-> "bundle", query |-> types, transform |-> transform,
          buffer |-> buf]

\* migrate from its first line to the first receive of the consumer loop
migrate ==
    /\ \E kind \in Kinds, transform \in Transforms, buf \in Buffers :
       \E types \in Types(kind) :
        /\ req' = [kind |-> kind, types |-> types, transform |-> transform,
                   buffer |-> buf]
        /\ pageNum' = 0 /\ pItem' = NoItem /\ pSkip' = None
        /\ srcReqs' = <<>>
        /\ buffer' = <<>> /\ sndClosed' = FALSE /\ handed' = NoItem
        /\ dest' = [p \in Pages |-> [st |-> "none", data |-> NoItem]]
        /\ responses' = <<>>
        /\ cancelled' = FALSE /\ errors' = <<>>
        /\ IF ~authenticated
           THEN /\ mpc' = "raised"
                /\ result' = Raise(<<[task |-> 0,
                                      exc |-> OtherException("AssertionError")]>>)
                /\ cur' = NoCur
                /\ ppc' = "none"
                /\ UNCHANGED dbArgs
           ELSE /\ mpc' = "recv"
                /\ result' = NoResult
                /\ cur' = pipeline(kind, types, transform, buf)
                /\ ppc' = "spawned"
                \* ContentPack.to_databus builds a new DataBus
                /\ dbArgs' = IF kind = "pack"
                             THEN [dbArgs EXCEPT !["packbus"] = None]
                             ELSE dbArgs
    /\ UNCHANGED <<auth, transport, ret, el>>

\* the first migrate of the Xogger
MigrateCall ==
    /\ mpc = "idle"
    /\ migrate

\* migrate called again once the call before has ended, with the DataBus
\* the caller passed before or with a pack
MigrateAgain ==
    /\ mpc \in {"returned", "raised"}
    /\ migrate

(***************************************************************************)
(* The task group.                                                         *)
(***************************************************************************)
\* tasks that are not supervised: a failure is recorded, nothing is cancelled
failed_no_cancel(task, exc) ==
    /\ errors' = Append(errors, [task |-> task, exc |-> exc])
    /\ UNCHANGED cancelled

\* a task of the group ends with an exception: the group records it and
\* cancels its scope
failed(task, exc) ==
    /\ errors' = Append(errors, [task |-> task, exc |-> exc])
    /\ cancelled' = TRUE

\* a close that leaves a waiting receiver asleep
closed_no_wake(m) == m

\* snd.close(): the last send channel closes, waiting receivers are woken
\* with nothing
closed(m) == IF m = "recvwait" THEN "woken" ELSE m

(***************************************************************************)
(* The producer task: Xogger._aiter_paginate_stream.                       *)
(***************************************************************************)
\* the loop body with a page counter that stays at 1
SourceCall_same_page(n, args) ==
    /\ pageNum' = 1
    /\ srcReqs' = Append(srcReqs, as_xml(cur, args))
    /\ ppc' = "call"

\* the loop body from as_xml to the await of the source's answer
SourceCall(n, args) ==
    /\ pageNum' = n
    /\ srcReqs' = Append(srcReqs, as_xml(cur, args))
    /\ ppc' = "call"

\* the loop without `if skip is None: break`
afterSend_no_break(skip) ==
    /\ dbArgs' = [dbArgs EXCEPT ![cur.databus] = skip]
    /\ SourceCall(pageNum + 1, skip)
    /\ UNCHANGED sndClosed

\* what follows a completed snd.send: break, or store the skip in the
\* DataBus and start the next iteration's source call
afterSend(skip) ==
    IF skip = None
    THEN /\ ppc' = "done"
         /\ sndClosed' = TRUE
         /\ UNCHANGED <<dbArgs, pageNum, srcReqs>>
    ELSE /\ dbArgs' = [dbArgs EXCEPT ![cur.databus] = skip]
         /\ SourceCall(pageNum + 1, skip)
         /\ UNCHANGED sndClosed

ProducerStart ==
    /\ ppc = "spawned"
    /\ IF cancelled
       THEN /\ ppc' = "cancelled"
            /\ sndClosed' = TRUE
            /\ mpc' = closed(mpc)
            /\ UNCHANGED <<pageNum, srcReqs>>
       ELSE /\ SourceCall(1, dbArgs[cur.databus])
            /\ UNCHANGED <<sndClosed, mpc>>
    /\ UNCHANGED <<auth, transport, ret, el, req, dbArgs, cur, pItem,
                   pSkip, buffer, handed, dest, responses, cancelled,
                   errors, result>>

\* the source answers: run_xog classifies, transform_fn is applied, the
\* task reaches the checkpoint that opens snd.send
SrcRespond ==
    /\ ppc = "call"
    /\ ~cancelled
    /\ \E resp \in SrcResponses(pageNum), tfok \in BOOLEAN :
        LET r == run_xog("src", resp)
        IN  IF r.kind = "raise"
            THEN /\ tfok
                 /\ ppc' = "failed"
                 /\ failed(0, r.exc)
                 /\ sndClosed' = TRUE
                 /\ mpc' = closed(mpc)
                 /\ UNCHANGED <<pItem, pSkip>>
            ELSE IF cur.transform = "none"
            THEN /\ tfok
                 /\ pItem' = <<pageNum, r.value.payload>>
                 /\ pSkip' = r.value.skip
                 /\ ppc' = "send"
                 /\ UNCHANGED <<errors, cancelled, sndClosed, mpc>>
            ELSE IF tfok
            THEN /\ pItem' = <<pageNum, transform_fn(r.value.payload)>>
                 /\ pSkip' = r.value.skip
                 /\ ppc' = "send"
                 /\ UNCHANGED <<errors, cancelled, sndClosed, mpc>>
            ELSE /\ ppc' = "failed"
                 /\ failed(0, OtherException("TransformError"))
                 /\ sndClosed' = TRUE
                 /\ mpc' = closed(mpc)
                 /\ UNCHANGED <<pItem, pSkip>>
    /\ UNCHANGED <<auth, transport, ret, el, req, dbArgs, cur, pageNum,
                   srcReqs, buffer, handed, dest, responses, result>>

\* snd.send after its checkpoint: send_nowait, else wait for a receiver
ProducerSend ==
    /\ ppc = "send"
    /\ ~cancelled
    /\ IF mpc = "recvwait"
       THEN /\ handed' = pItem
            /\ mpc' = "woken"
            /\ pItem' = NoItem
            /\ afterSend(pSkip)
            /\ UNCHANGED buffer
       ELSE IF Len(buffer) < cur.buffer
       THEN /\ buffer' = Append(buffer, pItem)
            /\ pItem' = NoItem
            /\ afterSend(pSkip)
            /\ mpc' = IF pSkip = None THEN closed(mpc) ELSE mpc
            /\ UNCHANGED handed
       ELSE /\ ppc' = "blocked"
            /\ UNCHANGED <<handed, mpc, pItem, buffer, dbArgs, pageNum, srcReqs,
                           sndClosed>>
    /\ UNCHANGED <<auth, transport, ret, el, req, cur, pSkip, dest,
                   responses, cancelled, errors, result>>

\* a blocked send was completed by the receiver: the loop goes on; in a
\* cancelled scope the next run_xog is cancelled before it posts
ProducerResume ==
    /\ ppc = "woken"
    /\ IF cancelled /\ pSkip # None
       THEN /\ dbArgs' = [dbArgs EXCEPT ![cur.databus] = pSkip]
            /\ ppc' = "cancelled"
            /\ sndClosed' = TRUE
            /\ UNCHANGED <<pageNum, srcReqs>>
       ELSE afterSend(pSkip)
    /\ mpc' = IF sndClosed' THEN closed(mpc) ELSE mpc
    /\ UNCHANGED <<auth, transport, ret, el, req, cur, pItem, pSkip,
                   buffer, handed, dest, responses, cancelled, errors,
                   result>>

\* the scope is cancelled while the producer waits for the source or in send
ProducerCancel ==
    /\ ppc \in {"call", "send", "blocked"}
    /\ cancelled
    /\ ppc' = "cancelled"
    /\ pItem' = NoItem
    /\ sndClosed' = TRUE
    /\ mpc' = closed(mpc)
    /\ UNCHANGED <<auth, transport, ret, el, req, dbArgs, cur, pageNum,
                   pSkip, srcReqs, buffer, handed, dest, responses,
                   cancelled, errors, result>>

(***************************************************************************)
(* The consumer: migrate's `async for page_num, resp in recv` loop.        *)
(***************************************************************************)
\* the loop body with responses.insert(0, resp)
dispatch_prepend(item) ==
    /\ dest' = [dest EXCEPT ![item[1]] = [st |-> "spawned", data |-> item[2]]]
    /\ responses' = <<item[2]>> \o responses
    /\ mpc' = "recv"

\* the loop body: tg.start_soon(self.dest.run_xog, resp); responses.append
dispatch(item) ==
    /\ dest' = [dest EXCEPT ![item[1]] = [st |-> "spawned", data |-> item[2]]]
    /\ responses' = Append(responses, item[2])
    /\ mpc' = "recv"

\* recv.receive after its checkpoint: receive_nowait, else wait
ConsumerReceive ==
    /\ mpc = "recv"
    /\ IF cancelled
       THEN /\ mpc' = "join"
            /\ UNCHANGED <<buffer, ppc, pItem, dest, responses>>
       ELSE IF ppc = "blocked"
       THEN LET all == Append(buffer, pItem)
            IN  /\ buffer' = Tail(all)
                /\ ppc' = "woken"
                /\ pItem' = NoItem
                /\ dispatch(Head(all))
       ELSE IF buffer # <<>>
       THEN /\ buffer' = Tail(buffer)
            /\ dispatch(Head(buffer))
            /\ UNCHANGED <<ppc, pItem>>
       ELSE /\ mpc' = IF sndClosed THEN "join" ELSE "recvwait"
            /\ UNCHANGED <<buffer, ppc, pItem, dest, responses>>
    /\ UNCHANGED <<auth, transport, ret, el, req, dbArgs, cur, pageNum,
                   pSkip, srcReqs, sndClosed, handed, cancelled, errors,
                   result>>

\* the waiting receiver was woken: with an item (kept even if the scope was
\* cancelled meanwhile) or, the stream having closed, with none
ConsumerResume ==
    /\ mpc = "woken"
    /\ IF handed = NoItem
       THEN /\ mpc' = "join"
            /\ UNCHANGED <<dest, responses>>
       ELSE dispatch(handed)
    /\ handed' = NoItem
    /\ UNCHANGED <<auth, transport, ret, el, req, dbArgs, cur, ppc,
                   pageNum, pItem, pSkip, srcReqs, buffer, sndClosed, cancelled, errors, result>>

\* the scope is cancelled while the consumer waits in receive
ConsumerCancel ==
    /\ mpc = "recvwait"
    /\ cancelled
    /\ mpc' = "join"
    /\ UNCHANGED <<auth, transport, ret, el, req, dbArgs, cur, ppc,
                   pageNum, pItem, pSkip, srcReqs, buffer, sndClosed, handed, dest,
                   responses, cancelled, errors, result>>

\* only the producer is awaited
children_done_producer_only == ppc \in {"done", "failed", "cancelled"}

\* a group that does not wait for its tasks once it is cancelled
children_done_unless_cancelled ==
    \/ cancelled
    \/ /\ ppc \in {"done", "failed", "cancelled"}
       /\ \A p \in Pages :
              dest[p].st \in {"none", "done", "failed", "cancelled", "aborted"}

\* every task of the group has ended
children_done ==
    /\ ppc \in {"done", "failed", "cancelled"}
    /\ \A p \in Pages : dest[p].st \in {"none", "done", "failed", "cancelled", "aborted"}

\* the producer run outside the group: only the destination tasks' errors
\* are raised
Join_dest_errors_only ==
    /\ mpc = "join"
    /\ children_done
    /\ IF \E i \in 1..Len(errors) : errors[i].task # 0
       THEN /\ mpc' = "raised"
            /\ result' = Raise(errors)
       ELSE /\ mpc' = "returned"
            /\ result' = Return(responses)
    /\ UNCHANGED <<auth, transport, ret, el, req, dbArgs, cur, ppc,
                   pageNum, pItem, pSkip, srcReqs, buffer, sndClosed, handed, dest,
                   responses, cancelled, errors>>

\* leaving `async with create_task_group()`: raise what the tasks raised,
\* else `return responses`
Join ==
    /\ mpc = "join"
    /\ children_done
    /\ IF errors # <<>>
       THEN /\ mpc' = "raised"
            /\ result' = Raise(errors)
       ELSE /\ mpc' = "returned"
            /\ result' = Return(responses)
    /\ UNCHANGED <<auth, transport, ret, el, req, dbArgs, cur, ppc,
                   pageNum, pItem, pSkip, srcReqs, buffer, sndClosed, handed, dest,
                   responses, cancelled, errors>>

(***************************************************************************)
(* The destination tasks: self.dest.run_xog(resp), one per page.           *)
(***************************************************************************)
\* the task runs up to its POST; in a cancelled scope it is cancelled at
\* the first checkpoint, before anything is sent
DestStart(p) ==
    /\ dest[p].st = "spawned"
    /\ dest' = [dest EXCEPT ![p].st = IF cancelled THEN "aborted" ELSE "inflight"]
    /\ UNCHANGED <<auth, transport, ret, el, req, dbArgs, mpc, cur, ppc,
                   pageNum, pItem, pSkip, srcReqs, buffer, sndClosed, handed,
                   responses, cancelled, errors, result>>

\* the destination answers
DestRespond(p) ==
    /\ dest[p].st = "inflight"
    /\ ~cancelled
    /\ \E resp \in DestResponses :
        LET r == run_xog("dest", resp)
        IN  IF r.kind = "raise"
            THEN /\ dest' = [dest EXCEPT ![p].st = "failed"]
                 /\ failed(p, r.exc)
            ELSE /\ dest' = [dest EXCEPT ![p].st = "done"]
                 /\ UNCHANGED <<errors, cancelled>>
    /\ UNCHANGED <<auth, transport, ret, el, req, dbArgs, mpc, cur, ppc,
                   pageNum, pItem, pSkip, srcReqs, buffer, sndClosed, handed,
                   responses, result>>

\* the scope is cancelled while the task waits for the destination
DestCancel(p) ==
    /\ dest[p].st = "inflight"
    /\ cancelled
    /\ dest' = [dest EXCEPT ![p].st = "cancelled"]
    /\ UNCHANGED <<auth, transport, ret, el, req, dbArgs, mpc, cur, ppc,
                   pageNum, pItem, pSkip, srcReqs, buffer, sndClosed, handed,
                   responses, cancelled, errors, result>>

(***************************************************************************)
(* The pipeline between two clients that were set up beforehand.           *)
(***************************************************************************)
Init ==
    /\ auth \in [Clients -> {None, Some("tok1")}]
    /\ transport = [c \in Clients |-> "open"]
    /\ ret = NoCall
    /\ el = EmptyDoc
    /\ PipeIdle

Next ==
    \/ MigrateCall
    \/ ProducerStart
    \/ SrcRespond
    \/ ProducerSend
    \/ ProducerResume
    \/ ProducerCancel
    \/ ConsumerReceive
    \/ ConsumerResume
    \/ ConsumerCancel
    \/ Join
    \/ \E p \in Pages : DestStart(p)
    \/ \E p \in Pages : DestRespond(p)
    \/ \E p \in Pages : DestCancel(p)

Spec == Init /\ [][Next]_vars

(***************************************************************************)
(* The pipeline on the event loop: while a task can run, the loop runs a   *)
(* task, and the source and the destination answer every call they were    *)
(* sent.                                                                   *)
(***************************************************************************)
Producer ==
    \/ ProducerStart
    \/ SrcRespond
    \/ ProducerSend
    \/ ProducerResume
    \/ ProducerCancel
Consumer ==
    \/ ConsumerReceive
    \/ ConsumerResume
    \/ ConsumerCancel
    \/ Join
DestTask(p) ==
    \/ DestStart(p)
    \/ DestRespond(p)
    \/ DestCancel(p)

Tasks ==
    \/ Producer
    \/ Consumer
    \/ \E p \in Pages : DestTask(p)

Fairness == WF_vars(Tasks)

FairSpec == Init /\ [][Next]_vars /\ Fairness

(***************************************************************************)
(* One Xogger used for migrate after migrate.                              *)
(***************************************************************************)
NextAgain ==
    \/ Next
    \/ MigrateAgain

SpecAgain == Init /\ [][NextAgain]_vars

(***************************************************************************)
(* The two clients' sessions up to the start of a migrate with them: the   *)
(* owner calls the clients' operations only while no migrate is running    *)
(* (the guard mpc = "idle" of the client actions).                         *)
(***************************************************************************)
NextSession ==
    \/ NextClient
    \/ MigrateCall

SpecSession == InitClient /\ [][NextSession]_vars

(***************************************************************************)
(* Properties: the pipeline (Spec).                                        *)
(***************************************************************************)
InFlight == {p \in Pages : dest[p].st = "inflight"}
Dispatched == {p \in Pages : dest[p].st # "none"}
SrcCalls == Len(srcReqs)

\* C1: while migrate(bundle, buffer=W) runs, at most W destination calls
\* are started and not yet finished.
C1_InFlightWithinWindow ==
    req.kind = "bundle" => Cardinality(InFlight) <= req.buffer

ExpectedPayload(i, n) ==
    LET pl == get_databus(PageDoc(i, IF i < n THEN Some(serialize(Cursor(i)))
                                                ELSE None))
    IN  IF req.transform = "f" THEN [pl EXCEPT !.part = "transformed"] ELSE pl

\* C3: a migrate of a bundle that returns made n >= 1 source calls, the
\* first n-1 answered with a cursor and the n-th without; it made exactly n
\* destination calls, one per page, and returns the n payloads in page
\* order 1..n. And an authenticated migrate raises only if a source call,
\* the transform or a destination call raised.
C3_PaginationComplete ==
    /\ (mpc = "returned" /\ req.kind = "bundle") =>
            LET n == SrcCalls
            IN  /\ n >= 1
                /\ result = Return(responses)
                /\ Len(responses) = n
                /\ \A i \in 1..n : responses[i] = ExpectedPayload(i, n)
                /\ Dispatched = 1..n
                /\ \A p \in 1..n :
                       dest[p] = [st |-> "done", data |-> responses[p]]
    /\ (mpc = "raised" /\ auth["src"] # None /\ auth["dest"] # None) =>
            (ppc = "failed" \/ \E p \in Pages : dest[p].st = "failed")

\* C3 witness: cursors 50, 100, None: three source calls, three writes.
C3_Witness ==
    /\ mpc = "returned"
    /\ req.kind = "bundle"
    /\ SrcCalls = 3
    /\ Len(result.value) = 3

\* C4: when migrate returns its list, every destination call it dispatched
\* has completed successfully.
C4_ReturnsAfterAllWrites ==
    mpc = "returned" =>
        /\ \A p \in Dispatched : dest[p].st = "done"
        /\ Cardinality(Dispatched) = Len(result.value)

\* C4 witness: migrate returned after two writes were dispatched.
C4_Witness ==
    /\ mpc = "returned"
    /\ Dispatched = {1, 2}

\* C6: migrate with an unauthenticated source or destination client raises
\* the assertion and performs no source call and no destination call, for
\* bundles and packs alike.
C6_FailsFastUnauthenticated ==
    ((auth["src"] = None \/ auth["dest"] = None) /\ mpc # "idle") =>
        /\ mpc = "raised"
        /\ result.kind = "raise"
        /\ result.exc[1].exc.type = "AssertionError"
        /\ SrcCalls = 0
        /\ Dispatched = {}
        /\ ppc = "none"

\* C6 witness: a pack migrated with only the source logged in.
C6_Witness ==
    /\ mpc = "raised"
    /\ req.kind = "pack"
    /\ auth["src"] # None
    /\ auth["dest"] = None

\* C7: in migrate(bundle, buffer=1), while no destination call has
\* completed, the second source read is not made before the first
\* destination write is dispatched, and with that write in flight the
\* producer is blocked: no third read, no second write.
C7_BackpressureWindowOne ==
    (/\ req.kind = "bundle"
     /\ req.buffer = 1
     /\ errors = <<>>
     /\ \A p \in Pages : dest[p].st \notin {"done", "failed"}) =>
        /\ SrcCalls >= 2 => 1 \in Dispatched
        /\ dest[1].st = "inflight" => (SrcCalls <= 2 /\ Dispatched = {1})

(***************************************************************************)
(* Properties: the session client (SpecClient).                            *)
(***************************************************************************)
\* the document carries the protocol's error envelope
IsFailure(d) == d.xogOutput /\ d.status = "FAILURE"

\* C5: after __aexit__ on an authenticated client the transport is closed,
\* whether or not the logout it made raised.
C5_TransportClosedOnRelease ==
    \A c \in Clients :
        (ret.op = "__aexit__" /\ ret.client = c /\ auth[c] # None)
            => transport[c] = "closed"

\* C8: login on an unauthenticated client, answered with a document that is
\* no failure and has no SessionID element, raises AuthException and leaves
\* the client unauthenticated.
C8_LoginWithoutSessionId ==
    [][\A c \in Clients :
          (/\ ret'.op = "login" /\ ret'.client = c
           /\ auth[c] = None
           /\ transport[c] # "closed"
           /\ ret'.resp.status = "2xx"
           /\ ~IsFailure(ret'.resp.doc)
           /\ ret'.resp.doc.sessionId = None)
              => /\ ret'.result.kind = "raise"
                 /\ ret'.result.exc.type = "AuthException"
                 /\ auth'[c] = None]_vars

\* C8 witness: such a login has just ended.
C8_Witness ==
    /\ ret.op = "login"
    /\ ret.resp.status = "2xx"
    /\ ~IsFailure(ret.resp.doc)
    /\ ret.resp.doc.sessionId = None
    /\ ret.req # None
    /\ ret.result.kind = "raise"
    /\ ret.result.exc.type = "AuthException"
    /\ auth[ret.client] = None

\* C9: login never ends with XogException; when the call inside it raises
\* XogException (a failure document with ErrorInformation), login raises
\* AuthException with that document and auth is left as it was.
C9_ClassifiedBecomesAuth ==
    [][\A c \in Clients :
          (ret'.op = "login" /\ ret'.client = c) =>
              /\ ~(ret'.result.kind = "raise"
                     /\ ret'.result.exc.type = "XogException")
              /\ (/\ transport[c] # "closed"
                  /\ ret'.resp.status = "2xx"
                  /\ IsFailure(ret'.resp.doc)
                  /\ ret'.resp.doc.errorInfo)
                    => /\ ret'.result.kind = "raise"
                       /\ ret'.result.exc.type = "AuthException"
                       /\ ret'.result.exc.doc = Some(ret'.resp.doc)
                       /\ auth'[c] = auth[c]]_vars

\* C9 witness: a login answered with a classified failure raised
\* AuthException on a client that keeps its earlier token.
C9_Witness ==
    /\ ret.op = "login"
    /\ ret.resp.status = "2xx"
    /\ IsFailure(ret.resp.doc)
    /\ ret.resp.doc.errorInfo
    /\ ret.req # None
    /\ ret.result.kind = "raise"
    /\ ret.result.exc.type = "AuthException"
    /\ auth[ret.client] = Some("tok1")

\* C16: run_xog on an answer with HTTP status 4xx or 5xx raises the
\* transport's error, whatever the body: never a protocol error
\* (XogException, XogFailureException, AuthException), and the error holds
\* no document, the body having gone through no classification.
C16_HttpErrorBeforeClassify ==
    (/\ ret.op = "run_xog"
     /\ ret.resp.status \in {"4xx", "5xx"}
     /\ ret.req # None) =>
        /\ ret.result.kind = "raise"
        /\ ret.result.exc.type = "HTTPStatusError"
        /\ ret.result.exc.doc = None

\* C16 witness: a 5xx answer whose body is a FAILURE document with
\* ErrorInformation was raised as the HTTP error.
C16_Witness ==
    /\ ret.op = "run_xog"
    /\ ret.resp.status = "5xx"
    /\ ret.resp.doc.xogOutput
    /\ ret.resp.doc.status = "FAILURE"
    /\ ret.resp.doc.errorInfo
    /\ ret.req # None
    /\ ret.result.kind = "raise"
    /\ ret.result.exc.type = "HTTPStatusError"

(***************************************************************************)
(* Properties: packs, pagination order, transforms (Spec).                 *)
(***************************************************************************)
\* source requests of this migrate that carry no skip argument: the first
\* request of a pagination
FirstCalls == {i \in 1..Len(srcReqs) : srcReqs[i].skip = None}

C13_CursorChaining ==
    [][/\ (srcReqs' # srcReqs) =>
              /\ ppc # "call" /\ ppc' = "call"
              /\ Len(srcReqs') = Len(srcReqs) + 1
              /\ SubSeq(srcReqs', 1, Len(srcReqs)) = srcReqs
              /\ pageNum' = Len(srcReqs')
       /\ \A n \in 1..(Len(srcReqs') - 1) :
              srcReqs'[n + 1].skip = Some(serialize(Cursor(n)))]_vars

\* C13 witness: the third source call is in flight, asking for the records
\* after the cursor of the second page.
C13_Witness ==
    /\ ppc = "call"
    /\ pageNum = 3
    /\ Len(srcReqs) = 3
    /\ srcReqs[2].skip = Some(<<5, 0>>)
    /\ srcReqs[3].skip = Some(<<1, 0, 0>>)

\* C14: every page migrate hands to the destination and records in its
\* list is the source's payload through the caller's transform where one
\* was given, the payload itself where none was, for a bundle and for a
\* pack alike; and the stream between producer and consumer never holds
\* more pages than the buffer the caller configured.
C14_TransformApplied ==
    LET emitted(pl) ==
            pl.part = (IF req.transform = "f" THEN "transformed"
                       ELSE "NikuDataBus")
    IN  /\ \A p \in Dispatched : emitted(dest[p].data) /\ dest[p].data.root.body = p
        /\ \A i \in 1..Len(responses) : emitted(responses[i])
        /\ Len(buffer) <= req.buffer

\* the answer to the last source call held no cursor and the producer has
\* not left its loop abnormally
NoCursorSeen ==
    /\ ppc \in {"send", "blocked", "woken", "done"}
    /\ pSkip = None

\* page n was sent on the stream: it waits in the buffer, was handed to the
\* receiver, or was dispatched to the destination
Emitted(n) ==
    \/ \E i \in 1..Len(buffer) : buffer[i][1] = n
    \/ (handed # NoItem /\ handed[1] = n)
    \/ n \in Dispatched

\* where the pagination loop has ended
LoopEnded ==
    /\ ppc = "done" =>
          /\ SrcCalls >= 1
          /\ pSkip = None
          /\ Emitted(pageNum)
    /\ mpc = "returned" =>
          /\ ppc = "done"
          /\ dest[pageNum].st = "done"
          /\ responses[Len(responses)] = dest[pageNum].data
          /\ dest[pageNum].data.root.skip = None

\* C15: the producer's first step is a source call, whatever the answers
\* will be; once an answer without a cursor has come, no further source
\* call is made in this migrate, the loop ends only after that page was
\* sent on the stream, and a migrate that returns has dispatched it as its
\* last page.
C15_StopsAtNoCursor ==
    [][/\ (ppc = "spawned" /\ ppc' # "spawned" /\ ~cancelled) =>
              (ppc' = "call" /\ SrcCalls' = 1)
       /\ NoCursorSeen =>
              /\ srcReqs' = srcReqs
              /\ (NoCursorSeen' \/ ppc' = "cancelled")
       /\ ppc \in {"done", "failed", "cancelled"} =>
              (ppc' = ppc /\ srcReqs' = srcReqs)
       /\ LoopEnded']_vars

\* C15 witness: the first answer had no cursor; one source call, its page
\* dispatched, migrate returned.
C15_Witness ==
    /\ mpc = "returned"
    /\ SrcCalls = 1
    /\ pSkip = None
    /\ Dispatched = {1}
    /\ Len(responses) = 1

(***************************************************************************)
(* Properties: failure, termination, tasks (Spec, FairSpec).               *)
(***************************************************************************)
\* the source call or the transform for page pageNum raised
ProducerFailed ==
    /\ ppc = "failed"
    /\ \E i \in 1..Len(errors) : errors[i].task = 0

\* where the producer has failed at page k: k source calls were made, only
\* pages below k were dispatched, and migrate does not return a list: where
\* it has ended it raised, the producer's exception among those it raises
AbortedAtPage ==
    ppc = "failed" =>
        /\ ProducerFailed
        /\ SrcCalls = pageNum
        /\ Dispatched \subseteq 1..(pageNum - 1)
        /\ mpc # "returned"
        /\ result.kind # "return"
        /\ mpc = "raised" =>
              /\ result.kind = "raise"
              /\ \E i \in 1..Len(result.exc) : result.exc[i].task = 0

\* C17: if the source call or the transform for page k raises, then from
\* there on no source call is made, no page with index >= k is dispatched
\* to the destination, and migrate ends by raising, never by returning.
C17_ProducerFailureAborts ==
    [][/\ AbortedAtPage'
       /\ ppc = "failed" =>
              /\ ppc' = "failed"
              /\ srcReqs' = srcReqs
              /\ pageNum' = pageNum]_vars

\* C17 witness: the transform raised for page 2; page 1 was dispatched, page
\* 2 was not, and migrate raised.
C17_Witness ==
    /\ mpc = "raised"
    /\ ppc = "failed"
    /\ pageNum = 2
    /\ errors[1] = [task |-> 0, exc |-> OtherException("TransformError")]
    /\ Dispatched = {1}

C19_NoOrphanedTasks ==
    [][/\ (mpc' = "raised") =>
              /\ ppc' \in {"none", "done", "failed", "cancelled"}
              /\ \A p \in Pages :
                     dest'[p].st \in {"none", "done", "failed", "cancelled",
                                      "aborted"}
       /\ mpc = "raised" =>
              UNCHANGED <<ppc, dest, srcReqs, buffer, handed>>]_vars

\* C19 witness: the write of page 1 failed; the write of page 2 and the
\* producer were cancelled in their exchanges before migrate raised.
C19_Witness ==
    /\ mpc = "raised"
    /\ dest[1].st = "failed"
    /\ dest[2].st = "cancelled"
    /\ ppc = "cancelled"
    /\ SrcCalls = 3

\* the steps a destination task's state may take
DestSteps ==
    {<<"none", "spawned">>, <<"spawned", "inflight">>, <<"spawned", "aborted">>,
     <<"inflight", "done">>, <<"inflight", "failed">>,
     <<"inflight", "cancelled">>}

\* C20: within one migrate no page index gets a second source call (the
\* page counter grows by one with every call and no request is repeated),
\* no page gets a second destination task (a page is dispatched only if it
\* never was, a task never starts over, and each dispatch records its page
\* once, in page order); and a migrate that returns has left no emitted
\* page on the stream: pages 1..n were each dispatched once, in that order.
C20_NoRetryNoLoss ==
    [][/\ (srcReqs' # srcReqs) =>
              /\ Len(srcReqs') = Len(srcReqs) + 1
              /\ pageNum' = pageNum + 1
              /\ \A i \in 1..Len(srcReqs) :
                     srcReqs[i] # srcReqs'[Len(srcReqs')]
       /\ \A p \in Pages :
              (dest'[p] # dest[p]) =>
                  /\ <<dest[p].st, dest'[p].st>> \in DestSteps
                  /\ dest[p].st # "none" => dest'[p].data = dest[p].data
       /\ (responses' # responses) =>
              \E p \in Pages :
                  /\ dest[p].st = "none" /\ dest'[p].st = "spawned"
                  /\ p = Len(responses) + 1
                  /\ responses' = Append(responses, dest'[p].data)
                  /\ dest'[p].data.root.body = p
       /\ (mpc' = "returned") =>
              /\ buffer' = <<>> /\ handed' = NoItem
              /\ Dispatched' = 1..pageNum'
              /\ Len(responses') = pageNum'
              /\ \A i \in 1..pageNum' :
                     /\ responses'[i].root.body = i
                     /\ dest'[i] = [st |-> "done", data |-> responses'[i]]]_vars

\* C20 witness: a bundle migrated with a stream of one slot returned two
\* pages, each read once and written once.
C20_Witness ==
    /\ mpc = "returned"
    /\ req.kind = "bundle"
    /\ req.buffer = 1
    /\ SrcCalls = 2
    /\ Len(responses) = 2
    /\ responses[1].root.body = 1
    /\ responses[2].root.body = 2

(***************************************************************************)
(* Properties: migrate after migrate (SpecAgain).                          *)
(***************************************************************************)
\* C21: the bundle the caller passes has no skip argument, and the first
\* source request of every migrate carries its arguments as the caller
\* supplied them: no skip, in a second migrate of the bundle as in the
\* first.
C21_FirstRequestUnmodified ==
    (req.kind = "bundle" /\ Len(srcReqs) >= 1) => srcReqs[1].skip = None

(***************************************************************************)
(* Properties: sessions and migrate (SpecSession, Spec).                   *)
(***************************************************************************)
\* no step of a running migrate (producer, consumer, destination tasks)
\* assigns a client's auth
MigrateKeepsAuth == [][auth' = auth]_vars

\* the client other than c
Other(c) == CHOOSE d \in Clients : d # c

\* C22: a client's auth changes only by a login of that client that
\* returns, which stores the SessionID of the answer; run_xog, logout,
\* __aenter__, __aexit__, a login that raises and the call of migrate leave
\* both clients' auth as it was. After a logout that was posted the client
\* still holds its token: its next posted call sends it, and a migrate
\* called then passes its two assertions if the other client is logged in.
C22_AuthOnlyByLogin ==
    [][/\ (auth' # auth) =>
              /\ ret'.op = "login" /\ ret'.result.kind = "return"
              /\ mpc' = mpc
              /\ auth'[ret'.client] # None
              /\ auth'[ret'.client] = ret'.resp.doc.sessionId
              /\ auth'[Other(ret'.client)] = auth[Other(ret'.client)]
       /\ (ret'.result.kind = "raise" \/ ret'.op # "login" \/ mpc' # mpc) =>
              auth' = auth
       /\ (ret.op = "logout" /\ ret.req # None) =>
              /\ auth[ret.client] # None
              /\ auth'[ret.client] # None
              /\ (ret'.client = ret.client /\ ret'.req # None /\ mpc' = mpc) =>
                     ret'.req[1].session = auth[ret.client]
              /\ (mpc' # mpc /\ auth[Other(ret.client)] # None) =>
                     (mpc' = "recv" /\ result' = NoResult)]_vars

\* C22 witness: a client logged out, the endpoint acknowledged, and the
\* migrate called next passed its assertions with the token still held.
C22_Witness ==
    /\ ret.op = "logout"
    /\ ret.req # None
    /\ ret.req[1].session = Some("tok1")
    /\ ret.result.kind = "return"
    /\ auth[ret.client] = Some("tok1")
    /\ mpc = "recv"

\* C23: a login that raises raises AuthException or an error of the
\* transport, never another protocol error: for an answer in FAILURE state
\* without ErrorInformation, too, the caller gets AuthException.
C23_LoginRaisesOnlyAuth ==
    (ret.op = "login" /\ ret.result.kind = "raise") =>
        ret.result.exc.type \in
            {"AuthException", "HTTPStatusError", "ConnectError", "RuntimeError"}

(***************************************************************************)
(* Properties: the classifier (SpecClassify).                              *)
(***************************************************************************)
\* C10: try_error on a document in FAILURE state never returns; without
\* ErrorInformation it raises XogFailureException carrying the document;
\* with it, XogException carrying the element's severity and description
\* ("FATAL" and "Failed running XOG" where missing) and the document.
C10_FailureClassified ==
    (ret.op = "try_error" /\ IsFailure(el)) =>
        /\ ret.result.kind = "raise"
        /\ ret.result.exc.doc = Some(el)
        /\ IF ~el.errorInfo
           THEN /\ ret.result.exc.type = "XogFailureException"
                /\ ret.result.exc.severity = None
                /\ ret.result.exc.description = None
           ELSE /\ ret.result.exc.type = "XogException"
                /\ ret.result.exc.severity =
                       (IF el.severity = None THEN Some("FATAL") ELSE el.severity)
                /\ ret.result.exc.description =
                       (IF el.description = None THEN Some("Failed running XOG")
                        ELSE el.description)

\* C10 witness: severity "WARN" and description "dup" were carried over.
C10_Witness ==
    /\ ret.op = "try_error"
    /\ IsFailure(el)
    /\ el.severity = Some("WARN")
    /\ el.description = Some("dup")
    /\ ret.result.kind = "raise"
    /\ ret.result.exc.type = "XogException"
    /\ ret.result.exc.severity = Some("WARN")
    /\ ret.result.exc.description = Some("dup")

\* C11: try_error on a document that is not in FAILURE state returns; with
\* no Status element the cursor is None; with a Status element the cursor is
\* the integer value of the Skip value under XOGOutput where there is one,
\* else None; the payload is the NikuDataBus under the body where there is
\* one, else the whole document.
C11_SuccessCursor ==
    (ret.op = "try_error" /\ ~IsFailure(el)) =>
        /\ ret.result.kind = "return"
        /\ ret.result.value.payload =
               [part |-> IF el.databus THEN "NikuDataBus" ELSE "root",
                root |-> el]
        /\ IF ~el.xogOutput \/ el.status = "absent"
           THEN ret.result.value.skip = None
           ELSE ret.result.value.skip =
                    (IF el.skip = None THEN None ELSE Some(int(el.skip[1])))

====
